---- MODULE Spec2Model ----
(***************************************************************************)
(* A model of grubimage: the configuration reader (src/config.rs), the     *)
(* Builder (src/builder/mod.rs) and the `cargo grubimage` build driver     *)
(* (src/bin/cargo-grubimage.rs).                                           *)
(*                                                                         *)
(* Four specifications share the module:                                   *)
(*   SpecConfig      read_config applied to one manifest file              *)
(*   SpecBuildKernel Builder::build_kernel applied to one pair of child    *)
(*                   process outcomes                                      *)
(*   SpecMetadata    a sequence of Builder::kernel_package_for_bin calls   *)
(*                   on one Builder                                        *)
(*   SpecMain        the build() driver of the binary, step by step        *)
(***************************************************************************)
EXTENDS Integers, Sequences, FiniteSets, TLC

VARIABLES
    manifest,        \* SpecConfig: the file read_config is applied to
    config_result,   \* SpecConfig: what read_config returned
    bk_call,         \* SpecBuildKernel: the arguments and child outcomes of the call
    bk_result,       \* SpecBuildKernel: what build_kernel returned
    builder,         \* the Builder: manifest_path and the project_metadata cache
    calls,           \* SpecMetadata: kernel_package_for_bin calls made so far
    exec_ok,         \* successful `cargo metadata` executions so far
    exec_failed,     \* failed `cargo metadata` executions so far
    kp_last,         \* the last kernel_package_for_bin call: name, query, result
    pc,              \* SpecMain: position of build()
    args,            \* SpecMain: the parsed BuildArgs
    fs,              \* SpecMain: manifest path -> manifest file
    config_manifest, \* SpecMain: the path read_config was called with
    config,          \* SpecMain: the Config build() holds
    executables,     \* SpecMain: the paths build_kernel returned
    idx,             \* SpecMain: the executable the for loop is at
    request,         \* SpecMain: the Grubimage value of the current iteration
    images,          \* SpecMain: the create_grubimage calls made, in order
    error            \* SpecMain: the error build() returned

vars == <<manifest, config_result, bk_call, bk_result, builder, calls, exec_ok,
          exec_failed, kp_last, pc, args, fs, config_manifest, config,
          executables, idx, request, images, error>>

configVars == <<manifest, config_result>>
buildKernelVars == <<bk_call, bk_result>>
metadataVars == <<builder, calls, exec_ok, exec_failed, kp_last>>
mainVars == <<pc, args, fs, config_manifest, config, executables,
              idx, request, images, error>>

(***************************************************************************)
(* Option and Result                                                       *)
(***************************************************************************)
None == [some |-> FALSE]
Some(x) == [some |-> TRUE, val |-> x]
Ok(x) == [ok |-> TRUE, val |-> x]
Err(e) == [ok |-> FALSE, err |-> e]
NotRun == [run |-> FALSE]

(***************************************************************************)
(* 64-bit TOML integers, kept as four 16-bit limbs <<l3, l2, l1, l0>> of   *)
(* their two's complement bits (most significant first).  The casts        *)
(* `as u32` and `as i32` keep the low 32 bits, the limbs <<l1, l0>>.       *)
(***************************************************************************)
LimbMax == 2^16 - 1
SignLimb == 2^15
I64(l3, l2, l1, l0) == <<l3, l2, l1, l0>>
is_negative(i) == i[1] >= SignLimb
as_u32(i) == <<i[3], i[4]>>
as_i32(i) == <<i[3], i[4]>>
\* the 32-bit unsigned value u, widened back to 64 bits
U32ToI64(u) == <<0, 0, u[1], u[2]>>
u32_300 == <<0, 300>>

(***************************************************************************)
(* toml::Value                                                             *)
(***************************************************************************)
Integer(i) == [type |-> "Integer", int |-> i]
Boolean(b) == [type |-> "Boolean", bool |-> b]
String(s) == [type |-> "String", str |-> s]
Array(a) == [type |-> "Array", array |-> a]
Table(t) == [type |-> "Table", table |-> t]
EmptyTable == [k \in {} |-> k]

\* Value::get with a string index: Some only on a table holding the key
Get(value, key) ==
    IF value.type = "Table" /\ key \in DOMAIN value.table
    THEN Some(value.table[key])
    ELSE None

\* Option::and_then(|table| table.get(key))
AndThenGet(opt, key) == IF opt.some THEN Get(opt.val, key) ELSE None

\* toml's Map is a BTreeMap: a table is iterated in the order of its keys
KeyOrder == <<"build-command", "default-target", "run-args", "run-command",
              "test-args", "test-no-reboot", "test-success-exit-code",
              "test-timeout", "timeout">>
Keys == {KeyOrder[i] : i \in DOMAIN KeyOrder}
IsPresent(t, k) == k \in DOMAIN t
Entries(t) == SelectSeq(KeyOrder, LAMBDA k : IsPresent(t, k))

(***************************************************************************)
(* ConfigBuilder and Config                                                *)
(***************************************************************************)
ConfigBuilderDefault ==
    [build_command |-> None, run_command |-> None, run_args |-> None,
     test_args |-> None, test_timeout |-> None,
     test_success_exit_code |-> None, test_no_reboot |-> None]

unwrap_or(opt, default) == IF opt.some THEN opt.val ELSE default

from_NoRebootOff(s) ==
    [build_command |-> unwrap_or(s.build_command, <<"build">>),
     run_command |-> unwrap_or(s.run_command,
                               <<"qemu-system-i386", "-cdrom", "{}">>),
     run_args |-> s.run_args,
     test_args |-> s.test_args,
     test_timeout |-> unwrap_or(s.test_timeout, u32_300),
     test_success_exit_code |-> s.test_success_exit_code,
     test_no_reboot |-> unwrap_or(s.test_no_reboot, FALSE)]

\* impl From<ConfigBuilder> for Config
from(s) ==
    [build_command |-> unwrap_or(s.build_command, <<"build">>),
     run_command |-> unwrap_or(s.run_command,
                               <<"qemu-system-i386", "-cdrom", "{}">>),
     run_args |-> s.run_args,
     test_args |-> s.test_args,
     test_timeout |-> unwrap_or(s.test_timeout, u32_300),
     test_success_exit_code |-> s.test_success_exit_code,
     test_no_reboot |-> unwrap_or(s.test_no_reboot, TRUE)]

(***************************************************************************)
(* read_config                                                             *)
(***************************************************************************)
ConfigError(msg, key) == Err([msg |-> msg, key |-> key])

RECURSIVE parse_string_array_from(_, _, _, _)
parse_string_array_from(array, prop_name, i, parsed) ==
    IF i > Len(array) THEN Ok(parsed)
    ELSE IF array[i].type = "String"
         THEN parse_string_array_from(array, prop_name, i + 1,
                                      Append(parsed, array[i].str))
         ELSE ConfigError("must be a list of strings", prop_name)

parse_string_array(array, prop_name) ==
    parse_string_array_from(array, prop_name, 1, <<>>)

\* `config.field = Some(parse_string_array(array, key)?)`
SetStringArray(cfg, field, array, key) ==
    LET parsed == parse_string_array(array, key)
    IN  IF parsed.ok
        THEN Ok([cfg EXCEPT ![field] = Some(parsed.val)])
        ELSE parsed

match_entry_IgnoreUnknown(cfg, key, value) ==
    IF key = "test-timeout" /\ value.type = "Integer" /\ is_negative(value.int)
    THEN ConfigError("test-timeout must not be negative", "test-timeout")
    ELSE IF key = "test-timeout" /\ value.type = "Integer"
    THEN Ok([cfg EXCEPT !.test_timeout = Some(as_u32(value.int))])
    ELSE IF key = "test-success-exit-code" /\ value.type = "Integer"
    THEN Ok([cfg EXCEPT !.test_success_exit_code = Some(as_i32(value.int))])
    ELSE IF key = "build-command" /\ value.type = "Array"
    THEN SetStringArray(cfg, "build_command", value.array, "build-command")
    ELSE IF key = "run-command" /\ value.type = "Array"
    THEN SetStringArray(cfg, "run_command", value.array, "run-command")
    ELSE IF key = "run-args" /\ value.type = "Array"
    THEN SetStringArray(cfg, "run_args", value.array, "run-args")
    ELSE IF key = "test-args" /\ value.type = "Array"
    THEN SetStringArray(cfg, "test_args", value.array, "test-args")
    ELSE IF key = "test-no-reboot" /\ value.type = "Boolean"
    THEN Ok([cfg EXCEPT !.test_no_reboot = Some(value.bool)])
    ELSE Ok(cfg)

match_entry_NoNegativeArm(cfg, key, value) ==
    IF key = "test-timeout" /\ value.type = "Integer"
    THEN Ok([cfg EXCEPT !.test_timeout = Some(as_u32(value.int))])
    ELSE IF key = "test-success-exit-code" /\ value.type = "Integer"
    THEN Ok([cfg EXCEPT !.test_success_exit_code = Some(as_i32(value.int))])
    ELSE IF key = "build-command" /\ value.type = "Array"
    THEN SetStringArray(cfg, "build_command", value.array, "build-command")
    ELSE IF key = "run-command" /\ value.type = "Array"
    THEN SetStringArray(cfg, "run_command", value.array, "run-command")
    ELSE IF key = "run-args" /\ value.type = "Array"
    THEN SetStringArray(cfg, "run_args", value.array, "run-args")
    ELSE IF key = "test-args" /\ value.type = "Array"
    THEN SetStringArray(cfg, "test_args", value.array, "test-args")
    ELSE IF key = "test-no-reboot" /\ value.type = "Boolean"
    THEN Ok([cfg EXCEPT !.test_no_reboot = Some(value.bool)])
    ELSE ConfigError("unexpected package.metadata.grubimage key", key)

\* the arms of the match on (key, value), in order
match_entry(cfg, key, value) ==
    IF key = "test-timeout" /\ value.type = "Integer" /\ is_negative(value.int)
    THEN ConfigError("test-timeout must not be negative", "test-timeout")
    ELSE IF key = "test-timeout" /\ value.type = "Integer"
    THEN Ok([cfg EXCEPT !.test_timeout = Some(as_u32(value.int))])
    ELSE IF key = "test-success-exit-code" /\ value.type = "Integer"
    THEN Ok([cfg EXCEPT !.test_success_exit_code = Some(as_i32(value.int))])
    ELSE IF key = "build-command" /\ value.type = "Array"
    THEN SetStringArray(cfg, "build_command", value.array, "build-command")
    ELSE IF key = "run-command" /\ value.type = "Array"
    THEN SetStringArray(cfg, "run_command", value.array, "run-command")
    ELSE IF key = "run-args" /\ value.type = "Array"
    THEN SetStringArray(cfg, "run_args", value.array, "run-args")
    ELSE IF key = "test-args" /\ value.type = "Array"
    THEN SetStringArray(cfg, "test_args", value.array, "test-args")
    ELSE IF key = "test-no-reboot" /\ value.type = "Boolean"
    THEN Ok([cfg EXCEPT !.test_no_reboot = Some(value.bool)])
    ELSE ConfigError("unexpected package.metadata.grubimage key", key)

\* `for (key, value) in metadata { ... }` followed by `Ok(config.into())`
RECURSIVE for_entries(_, _, _, _)
for_entries(table, entries, i, cfg) ==
    IF i > Len(entries) THEN Ok(from(cfg))
    ELSE LET step == match_entry(cfg, entries[i], table[entries[i]])
         IN  IF step.ok THEN for_entries(table, entries, i + 1, step.val)
             ELSE step

\* file: what opening, reading and parsing the manifest gives
read_config_inner(file) ==
    IF file.io = "open_failed" THEN ConfigError("Failed to open Cargo.toml", "")
    ELSE IF file.io = "read_failed"
    THEN ConfigError("Failed to read Cargo.toml", "")
    ELSE IF file.io = "parse_failed"
    THEN ConfigError("Failed to parse Cargo.toml", "")
    ELSE LET metadata ==
                 AndThenGet(AndThenGet(Get(file.toml, "package"), "metadata"),
                            "grubimage")
         IN  IF ~metadata.some THEN Ok(from(ConfigBuilderDefault))
             ELSE IF metadata.val.type # "Table"
             THEN ConfigError("grubimage configuration invalid", "")
             ELSE for_entries(metadata.val.table, Entries(metadata.val.table),
                              1, ConfigBuilderDefault)

\* .context("Failed to read grubimage configuration") keeps the cause
read_config(file) ==
    LET r == read_config_inner(file)
    IN  IF r.ok THEN r
        ELSE Err([msg |-> r.err.msg, key |-> r.err.key,
                  context |-> "Failed to read grubimage configuration"])

(***************************************************************************)
(* The manifests read_config is applied to                                 *)
(***************************************************************************)
\* bound: the number of keys of a `package.metadata.grubimage` table
MaxEntries == 2

\* 0, 1, 300, 2^16, 2^32 - 1, 2^32, 2^32 + 300, i64::MAX, -1, -300, i64::MIN
IntSamples ==
    {I64(0, 0, 0, 0), I64(0, 0, 0, 1), I64(0, 0, 0, 300), I64(0, 0, 1, 0),
     I64(0, 0, LimbMax, LimbMax), I64(0, 1, 0, 0), I64(0, 1, 0, 300),
     I64(SignLimb - 1, LimbMax, LimbMax, LimbMax),
     I64(LimbMax, LimbMax, LimbMax, LimbMax),
     I64(LimbMax, LimbMax, LimbMax, LimbMax - 299),
     I64(SignLimb, 0, 0, 0)}

\* 0, 33, 2^32 + 33, -1
ExitCodeSamples ==
    {I64(0, 0, 0, 0), I64(0, 0, 0, 33), I64(0, 1, 0, 33),
     I64(LimbMax, LimbMax, LimbMax, LimbMax)}

ArraySamples(word) ==
    {Array(<<>>), Array(<<String(word)>>),
     Array(<<String(word), String("--release")>>),
     Array(<<String(word), Integer(I64(0, 0, 0, 1))>>)}

\* the values a manifest may give a key of the table, of the expected type
\* and of another
ValuesOf(key) ==
    CASE key = "test-timeout" ->
             {Integer(i) : i \in IntSamples} \cup {String("300")}
      [] key = "test-success-exit-code" ->
             {Integer(i) : i \in ExitCodeSamples} \cup {String("33")}
      [] key = "build-command" -> ArraySamples("xbuild") \cup {String("xbuild")}
      [] key = "run-command" ->
             ArraySamples("qemu-system-x86_64") \cup {Boolean(TRUE)}
      [] key = "run-args" -> ArraySamples("-s") \cup {String("-s")}
      [] key = "test-args" ->
             ArraySamples("-nographic") \cup {Integer(I64(0, 0, 0, 1))}
      [] key = "test-no-reboot" ->
             {Boolean(TRUE), Boolean(FALSE), Integer(I64(0, 0, 0, 0))}
      [] OTHER -> {String("x86_64-os.json"), Integer(I64(0, 0, 0, 5))}

\* the tables of at most `budget` keys among KeyOrder[i..]
RECURSIVE TablesFrom(_, _)
TablesFrom(i, budget) ==
    IF i > Len(KeyOrder) \/ budget = 0 THEN {EmptyTable}
    ELSE TablesFrom(i + 1, budget)
         \cup {(KeyOrder[i] :> v) @@ t :
                   v \in ValuesOf(KeyOrder[i]), t \in TablesFrom(i + 1, budget - 1)}

Tables == TablesFrom(1, MaxEntries)

ParsedFile(root) == [io |-> "ok", toml |-> Table(root)]
FailedFile(how) == [io |-> how, toml |-> Table(EmptyTable)]
WithGrubimage(v) ==
    ParsedFile("package" :> Table("metadata" :> Table("grubimage" :> v)))

Manifests ==
    {FailedFile("open_failed"), FailedFile("read_failed"),
     FailedFile("parse_failed"),
     ParsedFile(EmptyTable),
     ParsedFile("package" :> String("kernel")),
     ParsedFile("package" :> Table(EmptyTable)),
     ParsedFile("package" :> Table("metadata" :> String("none"))),
     ParsedFile("package" :> Table("metadata" :> Table(EmptyTable))),
     ParsedFile("package" :> Table("metadata" :> Table("bootimage" :> Table(EmptyTable)))),
     WithGrubimage(String("default")), WithGrubimage(Array(<<>>))}
    \cup {WithGrubimage(Table(t)) : t \in Tables}

(***************************************************************************)
(* Idle values of the variables a specification does not use               *)
(***************************************************************************)
NoBuilder == [manifest_path |-> "", project_metadata |-> None]
IdleConfig == manifest = FailedFile("none") /\ config_result = NotRun
IdleBuildKernel == bk_call = NotRun /\ bk_result = NotRun
IdleMetadata ==
    /\ builder = NoBuilder /\ calls = 0 /\ exec_ok = 0 /\ exec_failed = 0
    /\ kp_last = NotRun
IdleMain ==
    /\ pc = "idle" /\ args = NotRun /\ fs = EmptyTable
    /\ config_manifest = None /\ config = NotRun /\ executables = <<>>
    /\ idx = 0 /\ request = NotRun /\ images = <<>> /\ error = None

(***************************************************************************)
(* SpecConfig: read_config on one manifest                                 *)
(***************************************************************************)
InitConfig ==
    /\ manifest \in Manifests
    /\ config_result = NotRun
    /\ IdleBuildKernel /\ IdleMetadata /\ IdleMain

ReadConfig ==
    /\ config_result = NotRun
    /\ config_result' = read_config(manifest)
    /\ UNCHANGED <<manifest, buildKernelVars, metadataVars, mainVars>>

NextConfig == ReadConfig

SpecConfig == InitConfig /\ [][NextConfig]_vars

(***************************************************************************)
(* Properties of read_config (SpecConfig)                                  *)
(***************************************************************************)
ConfigRan == config_result # NotRun

\* the manifest was read and parsed and holds a key package.metadata.grubimage
HasGrubimageKey ==
    /\ manifest.io = "ok"
    /\ "package" \in DOMAIN manifest.toml.table
    /\ manifest.toml.table["package"].type = "Table"
    /\ "metadata" \in DOMAIN manifest.toml.table["package"].table
    /\ manifest.toml.table["package"].table["metadata"].type = "Table"
    /\ "grubimage" \in
           DOMAIN manifest.toml.table["package"].table["metadata"].table

GrubimageValue ==
    manifest.toml.table["package"].table["metadata"].table["grubimage"]

HasGrubimageTable == HasGrubimageKey /\ GrubimageValue.type = "Table"
GrubimageTable == GrubimageValue.table

RecognizedKeys ==
    {"build-command", "run-command", "run-args", "test-args", "test-timeout",
     "test-success-exit-code", "test-no-reboot"}

ExpectedType(key) ==
    CASE key \in {"test-timeout", "test-success-exit-code"} -> "Integer"
      [] key = "test-no-reboot" -> "Boolean"
      [] OTHER -> "Array"

\* an unrecognized key, or a recognized key whose value has the wrong type
Offending(key, value) ==
    \/ key \notin RecognizedKeys
    \/ value.type # ExpectedType(key)
    \/ /\ value.type = "Array"
       /\ \E i \in DOMAIN value.array : value.array[i].type # "String"

NegativeTimeout(key, value) ==
    key = "test-timeout" /\ value.type = "Integer" /\ value.int[1] >= 2^15

Rejected(key, value) == Offending(key, value) \/ NegativeTimeout(key, value)

Position(key) == CHOOSE i \in DOMAIN KeyOrder : KeyOrder[i] = key

OffendingKeys(t) == {k \in DOMAIN t : Offending(k, t[k])}
RejectedKeys(t) == {k \in DOMAIN t : Rejected(k, t[k])}
FirstRejected(t) ==
    CHOOSE k \in RejectedKeys(t) :
        \A j \in RejectedKeys(t) : Position(k) <= Position(j)

NegativeError == "test-timeout must not be negative"

\* C5 as stated: with an offending key in the table, read_config fails and
\* the error names an offending key of the table.
C5_NamesOffendingKey ==
    (ConfigRan /\ HasGrubimageTable /\ OffendingKeys(GrubimageTable) # {})
        => /\ ~config_result.ok
           /\ config_result.err.key \in OffendingKeys(GrubimageTable)

\* C5 as amended: with an offending key in the table, read_config never
\* returns a configuration, and the error names the first key, in the
\* table's key order, that the loop rejects: the offending key itself unless
\* a negative test-timeout or another offending key comes before it.
C5_FailsNamingFirstRejected ==
    (ConfigRan /\ HasGrubimageTable /\ OffendingKeys(GrubimageTable) # {})
        => /\ ~config_result.ok
           /\ config_result.err.key = FirstRejected(GrubimageTable)
           /\ (FirstRejected(GrubimageTable) \in OffendingKeys(GrubimageTable)
                   <=> config_result.err.msg # NegativeError)

C5_Witness ==
    /\ ConfigRan /\ HasGrubimageTable
    /\ "timeout" \in OffendingKeys(GrubimageTable)
    /\ "build-command" \in DOMAIN GrubimageTable \ RejectedKeys(GrubimageTable)
    /\ ~config_result.ok
    /\ config_result.err.key = "timeout"

HasNegativeTimeout ==
    /\ HasGrubimageTable
    /\ "test-timeout" \in DOMAIN GrubimageTable
    /\ NegativeTimeout("test-timeout", GrubimageTable["test-timeout"])

\* C6 as stated: a negative test-timeout makes read_config fail with the
\* dedicated "must not be negative" error.
C6_NegativeGivesDedicatedError ==
    (ConfigRan /\ HasNegativeTimeout)
        => /\ ~config_result.ok
           /\ config_result.err.msg = NegativeError

\* C6 as amended: a negative test-timeout makes read_config fail, never
\* returning a configuration; the error is the dedicated "must not be
\* negative" one exactly when no key before test-timeout in the table's key
\* order is itself rejected, and otherwise the error of that earlier key.
C6_NegativeFails ==
    (ConfigRan /\ HasNegativeTimeout)
        => /\ ~config_result.ok
           /\ config_result.err.msg = NegativeError
                  <=> FirstRejected(GrubimageTable) = "test-timeout"
           /\ config_result.err.key = FirstRejected(GrubimageTable)

C6_Witness ==
    /\ ConfigRan /\ HasNegativeTimeout
    /\ Cardinality(DOMAIN GrubimageTable) > 1
    /\ ~config_result.ok
    /\ config_result.err.msg = NegativeError

C10_TimeoutPreserved ==
    (/\ ConfigRan /\ HasGrubimageTable
     /\ "test-timeout" \in DOMAIN GrubimageTable
     /\ GrubimageTable["test-timeout"].type = "Integer"
     /\ GrubimageTable["test-timeout"].int[1] < 2^15
     /\ RejectedKeys(GrubimageTable) = {})
        => /\ config_result.ok
           /\ U32ToI64(config_result.val.test_timeout)
                  = GrubimageTable["test-timeout"].int

(***************************************************************************)
(* Builder::build_kernel                                                   *)
(*                                                                         *)
(* A child process is what the spawned cargo does: whether it could be     *)
(* spawned, its exit status, and what it writes to its standard output and *)
(* standard error.  Standard output is a sequence of tokens: a line feed,  *)
(* the text of one JSON value, text that is no JSON, or a byte sequence    *)
(* that is no UTF-8.  Standard error is a byte string.                     *)
(***************************************************************************)
NL == [tok |-> "newline"]
Garbage == [tok |-> "garbage"]
BadByte == [tok |-> "invalid_utf8"]
\* the text of a JSON object; executable: how it holds the field `executable`
Json(executable) == [tok |-> "json", executable |-> executable]
Absent == [kind |-> "absent"]
JsonNull == [kind |-> "null"]
JsonNumber == [kind |-> "number"]
JsonString(str) == [kind |-> "string", str |-> str]

Child(spawned, success, stdout, stderr) ==
    [spawned |-> spawned, success |-> success, stdout |-> stdout,
     stderr |-> stderr]

output_AlwaysCaptured(inherit, child) ==
    IF ~child.spawned THEN Err("io")
    ELSE Ok([success |-> child.success, stdout |-> child.stdout,
             stderr |-> child.stderr])

\* process::Command::output: the exit status with the captured streams; a
\* stream set to Stdio::inherit is not captured and comes back empty
output(inherit, child) ==
    IF ~child.spawned THEN Err("io")
    ELSE Ok([success |-> child.success,
             stdout |-> IF inherit THEN <<>> ELSE child.stdout,
             stderr |-> IF inherit THEN "" ELSE child.stderr])

\* String::from_utf8
from_utf8(bytes) ==
    IF \E i \in DOMAIN bytes : bytes[i] = BadByte THEN Err("utf8")
    ELSE Ok(bytes)

\* str::lines: the text between line feeds; a last line needs no line feed,
\* and nothing follows a final line feed
RECURSIVE lines_from(_, _, _, _)
lines_from(text, i, line, acc) ==
    IF i > Len(text)
    THEN IF line = <<>> THEN acc ELSE Append(acc, line)
    ELSE IF text[i] = NL
         THEN lines_from(text, i + 1, <<>>, Append(acc, line))
         ELSE lines_from(text, i + 1, Append(line, text[i]), acc)

lines(text) == lines_from(text, 1, <<>>, <<>>)

\* json::parse: the text of exactly one JSON value, or an error
parse(line) ==
    IF Len(line) = 1 /\ line[1].tok = "json" THEN Ok(line[1])
    ELSE Err("json")

\* artifact["executable"].take_string()
take_string(artifact) ==
    IF artifact.executable.kind = "string"
    THEN Some(artifact.executable.str)
    ELSE None

push_executable_Front(execs, artifact) ==
    LET executable == take_string(artifact)
    IN  IF executable.some THEN <<executable.val>> \o execs ELSE execs

\* `if let Some(executable) = ... { executables.push(PathBuf::from(executable)) }`
push_executable(execs, artifact) ==
    LET executable == take_string(artifact)
    IN  IF executable.some THEN Append(execs, executable.val) ELSE execs

BuildKernelError(kind, stderr) == Err([kind |-> kind, stderr |-> stderr])

\* `for line in ... .lines() { ... }` followed by `Ok(executables)`
RECURSIVE for_lines(_, _, _)
for_lines(ls, i, execs) ==
    IF i > Len(ls) THEN Ok(execs)
    ELSE LET artifact == parse(ls[i])
         IN  IF ~artifact.ok
             THEN BuildKernelError("BuildJsonOutputInvalidJson", "")
             ELSE for_lines(ls, i + 1, push_executable(execs, artifact.val))

\* what follows the second invocation
retrieve_binary_paths(child2) ==
    LET out == output(FALSE, child2)
    IN  IF ~out.ok THEN BuildKernelError("Io", "")
        ELSE IF ~out.val.success
        THEN BuildKernelError("BuildFailed", out.val.stderr)
        ELSE LET text == from_utf8(out.val.stdout)
             IN  IF ~text.ok
                 THEN BuildKernelError("BuildJsonOutputInvalidUtf8", "")
                 ELSE for_lines(lines(text.val), 1, <<>>)

\* whether build_kernel goes on to the second invocation
first_succeeds(quiet, child1) ==
    LET out == output(~quiet, child1) IN out.ok /\ out.val.success

\* child1, child2: the cargo processes of the first and the second invocation
build_kernel(quiet, child1, child2) ==
    LET out == output(~quiet, child1)
    IN  IF ~out.ok THEN BuildKernelError("Io", "")
        ELSE IF ~out.val.success
        THEN BuildKernelError("BuildFailed", out.val.stderr)
        ELSE retrieve_binary_paths(child2)

(***************************************************************************)
(* The child processes build_kernel is applied to                          *)
(***************************************************************************)
\* bound: the number of tokens of the second invocation's standard output
MaxStream == 5

ExePaths == {"/ws/target/debug/kernel", "/ws/target/debug/tool"}

Tokens ==
    {NL, Garbage, BadByte, Json(Absent), Json(JsonNull), Json(JsonNumber)}
    \cup {Json(JsonString(p)) : p \in ExePaths}

Streams == UNION {[1..n -> Tokens] : n \in 0..MaxStream}

StderrSamples == {"", "error: could not compile kernel"}

NotSpawned == Child(FALSE, FALSE, <<>>, "")
Children1 ==
    {NotSpawned, Child(TRUE, TRUE, <<Garbage, NL>>, "")}
    \cup {Child(TRUE, FALSE, <<Garbage, NL>>, e) : e \in StderrSamples}
Children2Writing(streams) ==
    {NotSpawned}
    \cup {Child(TRUE, FALSE, <<>>, e) : e \in StderrSamples}
    \cup {Child(TRUE, TRUE, out, "") : out \in streams}
Children2 == Children2Writing(Streams)

(***************************************************************************)
(* SpecBuildKernel: build_kernel on one pair of child processes            *)
(***************************************************************************)
InitBuildKernel ==
    /\ bk_call = NotRun
    /\ bk_result = NotRun
    /\ IdleConfig /\ IdleMetadata /\ IdleMain

BuildKernel ==
    /\ bk_call = NotRun
    /\ \E quiet \in BOOLEAN, child1 \in Children1 :
           \/ /\ ~first_succeeds(quiet, child1)
              /\ bk_call' = [run |-> TRUE, quiet |-> quiet, child1 |-> child1,
                             second |-> FALSE, child2 |-> NotSpawned]
              /\ bk_result' = build_kernel(quiet, child1, NotSpawned)
           \/ /\ first_succeeds(quiet, child1)
              /\ \E child2 \in Children2 :
                     /\ bk_call' = [run |-> TRUE, quiet |-> quiet,
                                    child1 |-> child1, second |-> TRUE,
                                    child2 |-> child2]
                     /\ bk_result' = build_kernel(quiet, child1, child2)
    /\ UNCHANGED <<configVars, metadataVars, mainVars>>

NextBuildKernel == BuildKernel

SpecBuildKernel == InitBuildKernel /\ [][NextBuildKernel]_vars

(***************************************************************************)
(* Properties of build_kernel (SpecBuildKernel)                            *)
(***************************************************************************)
BuildKernelRan == bk_call # NotRun

\* the second invocation was made, exited with success and wrote UTF-8
StructuredOutputRead ==
    /\ BuildKernelRan /\ bk_call.second
    /\ bk_call.child2.spawned /\ bk_call.child2.success
    /\ \A i \in DOMAIN bk_call.child2.stdout :
           bk_call.child2.stdout[i] # BadByte

IsExecutableRecord(token) ==
    token.tok = "json" /\ token.executable.kind = "string"

\* the `executable` strings of a stream, in the order they were written
RECURSIVE ExecutableStrings(_)
ExecutableStrings(stream) ==
    IF stream = <<>> THEN <<>>
    ELSE IF IsExecutableRecord(Head(stream))
         THEN <<Head(stream).executable.str>> \o ExecutableStrings(Tail(stream))
         ELSE ExecutableStrings(Tail(stream))

RecordsWithoutExecutable(stream) ==
    {i \in DOMAIN stream :
         stream[i].tok = "json" /\ ~IsExecutableRecord(stream[i])}

\* C1: a successful build_kernel returns the `executable` strings of the
\* structured output, one per record carrying one, in the order written;
\* records without an `executable` string contribute nothing.
C1_ExecutablesInOrder ==
    (BuildKernelRan /\ bk_result.ok)
        => /\ bk_result.val = ExecutableStrings(bk_call.child2.stdout)
           /\ Len(bk_result.val)
                  = Cardinality({i \in DOMAIN bk_call.child2.stdout :
                                     IsExecutableRecord(bk_call.child2.stdout[i])})

C1_Witness ==
    /\ BuildKernelRan /\ bk_result.ok
    /\ Len(bk_result.val) = 2
    /\ bk_result.val[1] # bk_result.val[2]
    /\ RecordsWithoutExecutable(bk_call.child2.stdout) # {}

\* an invocation of build_kernel exited non-zero
FirstExitedNonZero ==
    BuildKernelRan /\ bk_call.child1.spawned /\ ~bk_call.child1.success
SecondExitedNonZero ==
    /\ BuildKernelRan /\ bk_call.second
    /\ bk_call.child2.spawned /\ ~bk_call.child2.success

\* C2 as stated: when an invocation exits non-zero, build_kernel returns
\* BuildFailed with the bytes the child wrote to its standard error.
C2_StderrOfChild ==
    /\ FirstExitedNonZero
           => /\ ~bk_result.ok
              /\ bk_result.err.kind = "BuildFailed"
              /\ bk_result.err.stderr = bk_call.child1.stderr
    /\ SecondExitedNonZero
           => /\ ~bk_result.ok
              /\ bk_result.err.kind = "BuildFailed"
              /\ bk_result.err.stderr = bk_call.child2.stderr

\* C2 as amended: when an invocation exits non-zero, build_kernel returns
\* BuildFailed and no artifacts; its stderr payload is the bytes the child
\* wrote to its standard error for the JSON invocation and for the first
\* invocation with quiet = true, and is empty for the first invocation
\* with quiet = false, whose standard error is inherited, not captured.
C2_CapturedStderr ==
    /\ FirstExitedNonZero
           => /\ ~bk_result.ok
              /\ bk_result.err.kind = "BuildFailed"
              /\ bk_result.err.stderr
                     = IF bk_call.quiet THEN bk_call.child1.stderr ELSE ""
    /\ SecondExitedNonZero
           => /\ ~bk_result.ok
              /\ bk_result.err.kind = "BuildFailed"
              /\ bk_result.err.stderr = bk_call.child2.stderr

C2_Witness ==
    /\ FirstExitedNonZero /\ ~bk_call.quiet
    /\ bk_call.child1.stderr # ""
    /\ bk_result.err.kind = "BuildFailed"
    /\ bk_result.err.stderr = ""

\* every line of the stream that is not empty is the text of one JSON value
NonEmptyLinesWellFormed(stream) ==
    /\ \A i \in DOMAIN stream : stream[i] # Garbage
    /\ \A i \in DOMAIN stream :
           (i < Len(stream) /\ stream[i] # NL) => stream[i + 1] = NL

\* C9: empty lines of the structured output are skipped; build_kernel fails
\* with the invalid-record error only on a non-empty malformed line.
C9_EmptyLinesSkipped ==
    (StructuredOutputRead /\ NonEmptyLinesWellFormed(bk_call.child2.stdout))
        => bk_result.ok

(***************************************************************************)
(* Builder::kernel_package_for_bin and Builder::project_metadata           *)
(***************************************************************************)
Target(name, kind) == [name |-> name, kind |-> kind]
Package(name, manifest_path, targets) ==
    [name |-> name, manifest_path |-> manifest_path, targets |-> targets]
Metadata(packages) == [packages |-> packages]

target_matches_AnyKind(t, kernel_bin_name) == t.name = kernel_bin_name

\* `t.name == kernel_bin_name && t.kind.iter().any(|k| k == "bin")`
target_matches(t, kernel_bin_name) ==
    /\ t.name = kernel_bin_name
    /\ \E k \in DOMAIN t.kind : t.kind[k] = "bin"

\* `p.targets.iter().any(...)`
package_matches(p, kernel_bin_name) ==
    \E t \in DOMAIN p.targets : target_matches(p.targets[t], kernel_bin_name)

\* `packages.iter().find(...)`
RECURSIVE find_from(_, _, _)
find_from(packages, i, kernel_bin_name) ==
    IF i > Len(packages) THEN None
    ELSE IF package_matches(packages[i], kernel_bin_name)
         THEN Some(packages[i])
         ELSE find_from(packages, i + 1, kernel_bin_name)

project_metadata_NoCache(b, query) ==
    IF ~query.ok
    THEN [builder |-> b, queried |-> TRUE, result |-> Err("cargo_metadata")]
    ELSE [builder |-> [b EXCEPT !.project_metadata = Some(query.val)],
          queried |-> TRUE, result |-> Ok(query.val)]

\* query: what MetadataCommand::exec answers if it is run
project_metadata(b, query) ==
    IF b.project_metadata.some
    THEN [builder |-> b, queried |-> FALSE,
          result |-> Ok(b.project_metadata.val)]
    ELSE IF ~query.ok
    THEN [builder |-> b, queried |-> TRUE, result |-> Err("cargo_metadata")]
    ELSE [builder |-> [b EXCEPT !.project_metadata = Some(query.val)],
          queried |-> TRUE, result |-> Ok(query.val)]

kernel_package_for_bin(b, kernel_bin_name, query) ==
    LET m == project_metadata(b, query)
    IN  [builder |-> m.builder, queried |-> m.queried,
         result |-> IF m.result.ok
                    THEN Ok(find_from(m.result.val.packages, 1,
                                      kernel_bin_name))
                    ELSE m.result]

\* the record kept of a call
CallRecord(b, kernel_bin_name, call) ==
    [run |-> TRUE, name |-> kernel_bin_name, queried |-> call.queried,
     result |-> call.result]

(***************************************************************************)
(* The workspaces `cargo metadata` answers with                            *)
(***************************************************************************)
\* bound: the number of packages of a workspace
MaxPackages == 3
\* bound: the number of kernel_package_for_bin calls on one Builder
MaxCalls == 3

ManifestPaths == {"/ws/Cargo.toml", "/ws/kernel/Cargo.toml"}

PackagePool ==
    {Package("ws", "/ws/Cargo.toml",
             <<Target("ws", <<"lib">>), Target("tool", <<"bin">>)>>),
     Package("kernel", "/ws/kernel/Cargo.toml",
             <<Target("kernel", <<"bin">>)>>),
     Package("libkernel", "/ws/libkernel/Cargo.toml",
             <<Target("kernel", <<"lib", "staticlib">>),
               Target("kernel", <<"example">>)>>),
     Package("other", "/ws/other/Cargo.toml",
             <<Target("kernel2", <<"bin">>), Target("kernel", <<"bin">>)>>)}

IsInjective(seq) ==
    \A i, j \in DOMAIN seq : seq[i] = seq[j] => i = j

Metadatas ==
    {Metadata(ps) :
         ps \in {q \in UNION {[1..n -> PackagePool] : n \in 0..MaxPackages} :
                     IsInjective(q)}}

QueryOutcomes == {Err("cargo_metadata")} \cup {Ok(m) : m \in Metadatas}

BinNames == {"kernel", "tool", "Kernel"}

(***************************************************************************)
(* SpecMetadata: kernel_package_for_bin calls on one Builder               *)
(***************************************************************************)
\* Builder::new.  manifest_path: the argument; env_manifest: Cargo.toml in
\* $CARGO_MANIFEST_DIR, if the variable is set; located: what
\* locate_manifest answers if it is asked
new(manifest_path, env_manifest, located) ==
    LET path == IF manifest_path.some THEN manifest_path ELSE env_manifest
    IN  IF path.some
        THEN Ok([manifest_path |-> path.val, project_metadata |-> None])
        ELSE IF located.ok
        THEN Ok([manifest_path |-> located.val, project_metadata |-> None])
        ELSE Err("locate_manifest")

InitMetadata ==
    /\ \E p \in ManifestPaths : builder = new(Some(p), None, Err("unused")).val
    /\ calls = 0 /\ exec_ok = 0 /\ exec_failed = 0
    /\ kp_last = NotRun
    /\ IdleConfig /\ IdleBuildKernel /\ IdleMain

KernelPackageForBin ==
    /\ calls < MaxCalls
    /\ \E name \in BinNames, query \in QueryOutcomes :
           LET call == kernel_package_for_bin(builder, name, query)
           IN  /\ builder' = call.builder
               /\ kp_last' = CallRecord(builder, name, call)
               /\ exec_ok' = IF call.queried /\ call.result.ok
                             THEN exec_ok + 1 ELSE exec_ok
               /\ exec_failed' = IF call.queried /\ ~call.result.ok
                                 THEN exec_failed + 1 ELSE exec_failed
    /\ calls' = calls + 1
    /\ UNCHANGED <<configVars, buildKernelVars, mainVars>>

NextMetadata == KernelPackageForBin

SpecMetadata == InitMetadata /\ [][NextMetadata]_vars

(***************************************************************************)
(* Properties of the metadata cache (SpecMetadata)                         *)
(***************************************************************************)
CacheFilled == builder.project_metadata.some

\* C8: the metadata query succeeds at most once; the cache is filled by the
\* first successful query and never changed afterwards; a call on a filled
\* cache answers from it without a query; a failed query leaves it empty.
C8_QueriedOnce ==
    /\ [](exec_ok <= 1 /\ (CacheFilled <=> exec_ok = 1))
    /\ [][/\ CacheFilled
                 => /\ builder' = builder
                    /\ exec_ok' = exec_ok /\ exec_failed' = exec_failed
                    /\ ~kp_last'.queried
                    /\ kp_last'.result
                           = Ok(find_from(builder.project_metadata.val.packages,
                                          1, kp_last'.name))
          /\ (~CacheFilled /\ exec_failed' # exec_failed)
                 => /\ ~builder'.project_metadata.some
                    /\ ~kp_last'.result.ok
          /\ (~CacheFilled /\ exec_ok' # exec_ok)
                 => /\ builder'.project_metadata.some
                    /\ kp_last'.queried]_vars

C8_Witness ==
    /\ exec_failed >= 1 /\ exec_ok = 1 /\ calls = MaxCalls
    /\ CacheFilled
    /\ ~kp_last.queried /\ kp_last.result.ok

(***************************************************************************)
(* build() of cargo-grubimage                                              *)
(***************************************************************************)
\* Path::parent and Path::file_stem of the paths cargo reports
parent(path) ==
    CASE path = "/ws/target/debug/kernel" -> Some("/ws/target/debug")
      [] path = "/ws/target/debug/tool" -> Some("/ws/target/debug")
      [] OTHER -> None
file_stem(path) ==
    CASE path = "/ws/target/debug/kernel" -> Some("kernel")
      [] path = "/ws/target/debug/tool" -> Some("tool")
      [] OTHER -> None
\* Path::join and format!, kept as the parts of the resulting string
join(dir, name) == <<dir, name>>
format_grubimage(bin_name) == <<"grubimage-", bin_name, ".iso">>

BuildError(msg) == Some([msg |-> msg])

\* the Grubimage value build() hands to create_grubimage
Grubimage(kernel_manifest, executable, out_dir, bin_name, build_args) ==
    [run |-> TRUE,
     kernel_manifest |-> kernel_manifest,
     bin_path |-> executable,
     output_bin_path |-> join(out_dir, format_grubimage(bin_name)),
     quiet |-> build_args.quiet,
     release |-> build_args.release,
     iso_dir_path |-> join(out_dir, "isofiles"),
     bin_name |-> bin_name]

\* what Builder::create_grubimage passes on to disk_image::create_iso_image
create_iso_image_args(grubimage) ==
    [output_bin_path |-> grubimage.output_bin_path,
     iso_dir_path |-> grubimage.iso_dir_path,
     bin_path |-> grubimage.bin_path,
     bin_name |-> grubimage.bin_name]

\* bound: the number of tokens of the structured output in SpecMain
MaxMainStream == 3

BuildArgs ==
    [manifest_path : {None} \cup {Some(p) : p \in ManifestPaths},
     quiet : BOOLEAN, release : {FALSE}]

MainManifests ==
    {ParsedFile(EmptyTable),
     WithGrubimage(Table("build-command" :> Array(<<String("xbuild")>>))),
     WithGrubimage(Table("timeout" :> Integer(I64(0, 0, 0, 5))))}

MainChildren2 ==
    Children2Writing({out \in Streams : Len(out) <= MaxMainStream})

InitMain ==
    /\ pc = "new"
    /\ args \in BuildArgs
    /\ fs \in [ManifestPaths -> MainManifests]
    /\ builder = NoBuilder
    /\ calls = 0 /\ exec_ok = 0 /\ exec_failed = 0 /\ kp_last = NotRun
    /\ config_manifest = None /\ config = NotRun /\ executables = <<>>
    /\ idx = 0 /\ request = NotRun /\ images = <<>> /\ error = None
    /\ IdleConfig /\ IdleBuildKernel

Fail(msg) == pc' = "failed" /\ error' = BuildError(msg)

\* `let mut builder = Builder::new(args.manifest_path().map(PathBuf::from))?;`
NewBuilder ==
    /\ pc = "new"
    /\ \E env_manifest \in {None, Some("/ws/kernel/Cargo.toml")},
          located \in {Err("locate_manifest"), Ok("/ws/Cargo.toml")} :
           LET b == new(args.manifest_path, env_manifest, located)
           IN  IF b.ok
               THEN /\ builder' = b.val
                    /\ pc' = "read_config"
                    /\ UNCHANGED error
               ELSE /\ Fail("locate_manifest")
                    /\ UNCHANGED builder
    /\ UNCHANGED <<configVars, buildKernelVars, calls, exec_ok, exec_failed,
                   kp_last, args, fs, config_manifest, config, executables,
                   idx, request, images>>

\* `let config = config::read_config(builder.manifest_path())?;`
ReadConfigStep ==
    /\ pc = "read_config"
    /\ config_manifest' = Some(builder.manifest_path)
    /\ LET r == read_config(fs[builder.manifest_path])
       IN  IF r.ok
           THEN config' = r.val /\ pc' = "build_kernel" /\ UNCHANGED error
           ELSE Fail(r.err.msg) /\ UNCHANGED config
    /\ UNCHANGED <<configVars, buildKernelVars, metadataVars, args, fs,
                   executables, idx, request, images>>

\* `let executables = builder.build_kernel(...)?;` and the check for none
BuildKernelStep ==
    /\ pc = "build_kernel"
    /\ \E child1 \in Children1, child2 \in MainChildren2 :
           LET r == build_kernel(args.quiet, child1, child2)
           IN  IF ~r.ok
               THEN Fail(r.err.kind) /\ UNCHANGED <<executables, idx>>
               ELSE IF r.val = <<>>
               THEN Fail("no executables built")
                    /\ UNCHANGED <<executables, idx>>
               ELSE /\ executables' = r.val
                    /\ idx' = 1
                    /\ pc' = "locate"
                    /\ UNCHANGED error
    /\ UNCHANGED <<configVars, buildKernelVars, metadataVars, args, fs,
                   config_manifest, config, request, images>>

\* the head of the loop body: out_dir, bin_name, the owning package and the
\* Grubimage value
Locate ==
    /\ pc = "locate"
    /\ LET executable == executables[idx]
           out_dir == parent(executable)
           bin_name == file_stem(executable)
       IN  IF ~out_dir.some
           THEN /\ Fail("executable has no parent path")
                /\ UNCHANGED <<metadataVars, request>>
           ELSE IF ~bin_name.some
           THEN /\ Fail("executable has no file stem")
                /\ UNCHANGED <<metadataVars, request>>
           ELSE \E query \in QueryOutcomes :
                    LET call == kernel_package_for_bin(builder, bin_name.val,
                                                       query)
                    IN  /\ builder' = call.builder
                        /\ kp_last' = CallRecord(builder, bin_name.val, call)
                        /\ calls' = calls + 1
                        /\ exec_ok' = IF call.queried /\ call.result.ok
                                      THEN exec_ok + 1 ELSE exec_ok
                        /\ exec_failed' = IF call.queried /\ ~call.result.ok
                                          THEN exec_failed + 1 ELSE exec_failed
                        /\ IF ~call.result.ok
                           THEN /\ Fail("Failed to run cargo metadata to find out kernel manifest path")
                                /\ UNCHANGED request
                           ELSE IF ~call.result.val.some
                           THEN /\ Fail("Failed to find kernel binary in cargo metadata output")
                                /\ UNCHANGED request
                           ELSE /\ request' =
                                       Grubimage(call.result.val.val.manifest_path,
                                                 executable, out_dir.val,
                                                 bin_name.val, args)
                                /\ pc' = "create"
                                /\ UNCHANGED error
    /\ UNCHANGED <<configVars, buildKernelVars, args, fs, config_manifest,
                   config, executables, idx, images>>

\* `builder.create_grubimage(&grubimage)?;` and the end of the loop body
CreateGrubimage ==
    /\ pc = "create"
    /\ images' = Append(images, [bin_name |-> request.bin_name,
                                 passed |-> create_iso_image_args(request)])
    /\ \E created \in BOOLEAN :
           IF ~created
           THEN Fail("create_iso_image") /\ UNCHANGED idx
           ELSE /\ idx' = idx + 1
                /\ pc' = IF idx + 1 > Len(executables) THEN "done" ELSE "locate"
                /\ UNCHANGED error
    /\ UNCHANGED <<configVars, buildKernelVars, metadataVars, args, fs,
                   config_manifest, config, executables, request>>

NextMain ==
    \/ NewBuilder
    \/ ReadConfigStep
    \/ BuildKernelStep
    \/ Locate
    \/ CreateGrubimage

SpecMain == InitMain /\ [][NextMain]_vars

(***************************************************************************)
(* Properties of build() (SpecMain)                                        *)
(***************************************************************************)
\* C3: when the package owning a built binary has another manifest than the
\* one the Builder holds, the configuration was read from the owning
\* package's manifest.
C3_ConfigFromOwningManifest ==
    (request # NotRun /\ request.kernel_manifest # builder.manifest_path)
        => config_manifest = Some(request.kernel_manifest)

\* the packages of the metadata with a target of kind bin named `name`
HasBinTarget(package, name) ==
    \E t \in DOMAIN package.targets :
        /\ package.targets[t].name = name
        /\ "bin" \in {package.targets[t].kind[k] :
                          k \in DOMAIN package.targets[t].kind}

OwnerIndexes(name) ==
    {i \in DOMAIN builder.project_metadata.val.packages :
         HasBinTarget(builder.project_metadata.val.packages[i], name)}

NotFoundError == "Failed to find kernel binary in cargo metadata output"

\* C4: with the metadata available, kernel_package_for_bin answers the first
\* package, in metadata order, with a bin target of exactly that name, and
\* None exactly when there is none; on None build() fails with its explicit
\* error and create_grubimage is not called for that artifact.
C4_FirstOwnerOrNone ==
    (kp_last # NotRun /\ kp_last.result.ok)
        => /\ builder.project_metadata.some
           /\ kp_last.result.val = None <=> OwnerIndexes(kp_last.name) = {}
           /\ OwnerIndexes(kp_last.name) # {}
                  => \E i \in OwnerIndexes(kp_last.name) :
                         /\ \A j \in OwnerIndexes(kp_last.name) : i <= j
                         /\ kp_last.result.val
                                = Some(builder.project_metadata.val.packages[i])
           /\ kp_last.result.val = None
                  => /\ pc = "failed"
                     /\ error = BuildError(NotFoundError)
                     /\ Len(images) = idx - 1

C4_Witness ==
    /\ kp_last # NotRun /\ kp_last.result.ok
    /\ kp_last.result.val = None
    /\ pc = "failed" /\ idx = 2 /\ Len(images) = 1
    /\ Cardinality(OwnerIndexes(images[1].bin_name)) = 2

====
